---- MODULE Spec2Model ----
(***************************************************************************)
(* A model of the wire-format core of pirch (pirch.proto.irc): the         *)
(* tokenizer _argsplit, the command registry, Arguments and Message.       *)
(*                                                                         *)
(* A byte string is a sequence of one-character strings.  Indexing a byte  *)
(* string yields a byte string of length one that compares equal to b' '   *)
(* and b':' (the semantics under which the repository's unit tests pass).  *)
(* Python positions are 0-based; the model's are 1-based, so the Python    *)
(* position i is the model's position i + 1 and the slice msg[p:q] is     *)
(* SubSeq(msg, p + 1, q).                                                  *)
(***************************************************************************)
EXTENDS Integers, Sequences, FiniteSets, TLC

VARIABLES
    line,       \* the raw line last handed to _argsplit or to Message.from_bytes
    parts,      \* what list(_argsplit(line)) produced
    pc,         \* "call" before the tokenizer has run, "done" after, else "idle"
    cmds,       \* the Command objects that exist, by object identity
    registry,   \* Command._registry: command token -> identity of a Command
    unknown,    \* UnknownCommand._registry: token -> live proxy
    message,    \* the Message object the program holds (NoMessage if none)
    via,        \* how that Message came to be: new, init, decoded or echo; "none"
                \* before any was asked for, "absent" when from_bytes returned None
    newcall,    \* the command and keyword arguments Message.new built it from
    ret,        \* outcome of the last operation: value returned or exception
    calls,      \* collaborator and constructor calls made by the last operation
    held,       \* the UnknownCommand proxies the program holds a reference to
    allocated   \* how many UnknownCommand objects have been allocated so far

vars == <<line, parts, pc, cmds, registry, unknown, message, via, newcall, ret, calls,
          held, allocated>>

(***************************************************************************)
(* Bounds                                                                  *)
(***************************************************************************)
MaxLineFrags == 5     \* fragments per line handed to the tokenizer
MaxWireFrags == 4     \* fragments per line handed to Message.from_bytes
MaxSeqLen == 3        \* length of an argument list handed to Arguments()
MaxCmds == 3          \* Command objects that exist, the built-in two included
MaxProxies == 2       \* UnknownCommand objects allocated in one run
MaxKeys == 3          \* entries of a dictionary handed to Arguments.from_dict

(***************************************************************************)
(* Byte strings                                                            *)
(***************************************************************************)
SP == " "
COLON == ":"
PING == <<"P", "I", "N", "G">>
PONG == <<"P", "O", "N", "G">>

Fragments == {<<SP>>, <<COLON>>, <<"a">>, PING}

RECURSIVE Flatten(_)
Flatten(ss) == IF ss = <<>> THEN <<>> ELSE Head(ss) \o Flatten(Tail(ss))

LinesOf(n) == {Flatten(ss) : ss \in UNION {[1..k -> Fragments] : k \in 0..n}}

Lines == LinesOf(MaxLineFrags)
\* two longer lines with several arguments: ":a a a PING" and
\* "PING a PING :a a"
LongLines ==
    {<<COLON, "a", SP, "a", SP, "a", SP>> \o PING,
     PING \o <<SP, "a", SP>> \o PING \o <<SP, COLON, "a", SP, "a">>}

WireLines == LinesOf(MaxWireFrags) \cup LongLines

(***************************************************************************)
(* _argsplit (messages.py:25-62).  prev = 0 stands for prev is None.       *)
(***************************************************************************)
\* line 49: yield msg[i + 1:]
SentinelArgKeepColon(msg, i) == SubSeq(msg, i, Len(msg))
SentinelArg(msg, i) == SubSeq(msg, i + 1, Len(msg))

\* line 57: yield msg[prev:i]
TokenWithSpace(msg, prev, i) == SubSeq(msg, prev, i)
Token(msg, prev, i) == SubSeq(msg, prev, i - 1)

\* line 62: yield msg[prev:]
LastTokenDropEmpty(msg, prev) ==
    IF prev > Len(msg) THEN <<>> ELSE <<SubSeq(msg, prev, Len(msg))>>
LastToken(msg, prev) == <<SubSeq(msg, prev, Len(msg))>>

RECURSIVE ArgSplitLoop(_, _, _, _)
ArgSplitLoop(msg, i, prev, out) ==
    IF i > Len(msg)
    THEN \* the for loop ran to its end: the else clause, lines 59-62
         IF prev # 0 THEN out \o LastToken(msg, prev) ELSE out
    ELSE IF prev = 0
         THEN IF msg[i] = SP
              THEN ArgSplitLoop(msg, i + 1, prev, out)
              ELSE IF msg[i] = COLON
                   THEN \* yield the rest and break: the else clause is skipped
                        Append(out, SentinelArg(msg, i))
                   ELSE ArgSplitLoop(msg, i + 1, i, out)
         ELSE IF msg[i] = SP
              THEN ArgSplitLoop(msg, i + 1, 0, Append(out, Token(msg, prev, i)))
              ELSE ArgSplitLoop(msg, i + 1, prev, out)

\* line 40: prev = 0, the scan starts inside the first token
ArgSplitSkipFirst(msg) == ArgSplitLoop(msg, 1, 0, <<>>)
_argsplit(msg) == ArgSplitLoop(msg, 1, 1, <<>>)

(***************************************************************************)
(* Values: byte strings, the util.unset singleton, None and entities.      *)
(***************************************************************************)
Bytes(s) == [t |-> "bytes", v |-> s]
Unset == [t |-> "unset", v |-> <<>>]
None == [t |-> "None", v |-> <<>>]
Entity(nick) == [t |-> "entity", v |-> nick]

\* the connection collaborator: conn.me, conn.peer, conn.get_entity(), and
\* Entity.to_bytes()
ConnMe == Entity(<<"m", "e">>)
ConnPeer == Entity(<<"s", "v">>)
get_entity(tok) == Entity(tok)
EntityToBytes(e) == e.v

Performed(f, a) == [f |-> f, a |-> a]
Outcome(op, arg, status, val) ==
    [op |-> op, arg |-> arg, status |-> status, val |-> val]
NoOutcome == Outcome("none", "", "ok", None)

(***************************************************************************)
(* Argument, EntityArgument (commands.py:22-114)                           *)
(***************************************************************************)
Argument(name, idx, default) ==
    [name |-> name, idx |-> idx, default |-> default, cls |-> "Argument"]
EntityArgument(name, idx, default) ==
    [name |-> name, idx |-> idx, default |-> default, cls |-> "EntityArgument"]

\* Argument.from_bytes returns the value unchanged; EntityArgument.from_bytes
\* resolves it through conn.get_entity
RawFromBytes(desc, value) == value
ArgFromBytes(desc, value) ==
    IF desc.cls = "EntityArgument" THEN get_entity(value.v) ELSE value

\* Argument.to_bytes returns the value unchanged; EntityArgument.to_bytes
\* returns value.to_bytes()
ArgToBytes(desc, value) ==
    IF desc.cls = "EntityArgument" THEN Bytes(EntityToBytes(value)) ELSE value

(***************************************************************************)
(* Command (commands.py:117-220)                                           *)
(***************************************************************************)
NoArguments == [n \in {} |-> Unset]
NoArgset == [cached |-> FALSE, names |-> {}]

\* Command.__init__
Command(cmd) == [cmd |-> cmd, _arguments |-> NoArguments, _argset |-> NoArgset]

\* Command.add_argument (lines 193-210) applied to the Command object command
AddArgumentKeepingArgset(command, desc) ==
    IF desc.name \in DOMAIN command._arguments
    THEN [status |-> "ValueError", command |-> command]
    ELSE [status |-> "ok",
          command |-> [command EXCEPT
                          !._arguments = [n \in DOMAIN @ \cup {desc.name} |->
                                             IF n = desc.name THEN desc ELSE @[n]]]]
AddArgumentReplacing(command, desc) ==
    [status |-> "ok",
     command |-> [command EXCEPT
                     !._arguments = [n \in DOMAIN @ \cup {desc.name} |->
                                        IF n = desc.name THEN desc ELSE @[n]],
                     !._argset = NoArgset]]
add_argument(command, desc) ==
    IF desc.name \in DOMAIN command._arguments
    THEN [status |-> "ValueError", command |-> command]
    ELSE [status |-> "ok",
          command |-> [command EXCEPT
                          !._arguments = [n \in DOMAIN @ \cup {desc.name} |->
                                             IF n = desc.name THEN desc ELSE @[n]],
                          !._argset = NoArgset]]

\* Command.register (lines 125-139) of the object c, whose token is cmd, in
\* the registry reg
RegisterOverwrite(reg, cmd, c) ==
    [status |-> "ok",
     registry |-> [tok \in DOMAIN reg \cup {cmd} |-> IF tok = cmd THEN c ELSE reg[tok]]]
register(reg, cmd, c) ==
    IF cmd \in DOMAIN reg
    THEN [status |-> "ValueError", registry |-> reg]
    ELSE [status |-> "ok",
          registry |-> [tok \in DOMAIN reg \cup {cmd} |->
                           IF tok = cmd THEN c ELSE reg[tok]]]

\* Command.lookup (lines 141-153) in the registry reg; id is the Command found
LookupWithDefault(reg, cmd) ==
    [status |-> "ok", id |-> IF cmd \in DOMAIN reg THEN reg[cmd] ELSE 1]
lookup(reg, cmd) ==
    IF cmd \in DOMAIN reg THEN [status |-> "ok", id |-> reg[cmd]]
    ELSE [status |-> "KeyError", id |-> 0]

\* a reference to a Command object (by identity)
CommandRef(c) == [kind |-> "Command", id |-> c, cmd |-> cmds[c].cmd]

Put(f, k, val) == [j \in DOMAIN f \cup {k} |-> IF j = k THEN val ELSE f[j]]

\* Command.arguments: the value returned
Arguments_of(c) ==
    IF cmds[c]._argset.cached THEN cmds[c]._argset.names
    ELSE DOMAIN cmds[c]._arguments

\* Command.arguments: the objects afterwards (_argset is filled in)
CmdsAfterArguments(c) ==
    IF cmds[c]._argset.cached THEN cmds
    ELSE [cmds EXCEPT ![c]._argset =
              [cached |-> TRUE, names |-> DOMAIN cmds[c]._arguments]]

(***************************************************************************)
(* UnknownCommand (commands.py:223-299) and get_command (313-329)          *)
(***************************************************************************)
\* an UnknownCommand object: its cache (0 for None) and its identity obj, the
\* number of the allocation that made it
NoUnknown == [tok \in {} |-> [_command_cache |-> 0, obj |-> 0]]

\* UnknownCommand.__new__ (lines 240-249): the identity of the instance
\* returned for tok, the registered one or else a newly allocated one
AlwaysAllocate(tok) == allocated + 1
ProxyFor(tok) ==
    IF tok \in DOMAIN unknown THEN unknown[tok].obj ELSE allocated + 1

\* a reference to the UnknownCommand proxy of a token
UnknownRef(tok) == [kind |-> "UnknownCommand", id |-> ProxyFor(tok), cmd |-> tok]

\* UnknownCommand._command: the Command found (0 for None)
ProxyCommandCacheOnly(tok) == unknown[tok]._command_cache
ProxyCommand(tok) ==
    IF unknown[tok]._command_cache = 0
    THEN IF tok \in DOMAIN registry THEN registry[tok] ELSE 0
    ELSE unknown[tok]._command_cache

\* UnknownCommand._registry after a proxy's _command was read
UnknownUncached(ref) == unknown
UnknownAfterAccess(ref) ==
    IF ref.kind = "UnknownCommand" /\ ref.cmd \in DOMAIN unknown
    THEN [unknown EXCEPT ![ref.cmd]._command_cache = ProxyCommand(ref.cmd)]
    ELSE unknown

\* the Command behind a reference (0 if an unresolved proxy)
Resolve(ref) == IF ref.kind = "Command" THEN ref.id ELSE ProxyCommand(ref.cmd)

\* Command.__contains__ / UnknownCommand.__contains__
Contains(ref, name) ==
    IF Resolve(ref) = 0 THEN FALSE
    ELSE name \in DOMAIN cmds[Resolve(ref)]._arguments

\* Command.__getitem__ / UnknownCommand.__getitem__
GetItem(ref, name) ==
    IF Contains(ref, name)
    THEN [status |-> "ok", desc |-> cmds[Resolve(ref)]._arguments[name]]
    ELSE [status |-> "KeyError", desc |-> Unset]

\* UnknownCommand.arguments (lines 278-284): the value returned
ProxyArguments(ref) ==
    IF Resolve(ref) = 0 THEN {} ELSE Arguments_of(Resolve(ref))

\* get_command: the reference returned
get_command(tok) ==
    IF tok \in DOMAIN registry
    THEN [kind |-> "Command", id |-> registry[tok], cmd |-> cmds[registry[tok]].cmd]
    ELSE UnknownRef(tok)

\* get_command: UnknownCommand._registry afterwards (UnknownCommand.__new__)
UnknownAfterGet(tok) ==
    IF tok \in DOMAIN registry \/ ProxyFor(tok) <= allocated THEN unknown
    ELSE Put(unknown, tok, [_command_cache |-> 0, obj |-> ProxyFor(tok)])

\* get_command: the number of UnknownCommand objects allocated afterwards
AllocatedAfterGet(tok) ==
    IF tok \in DOMAIN registry \/ ProxyFor(tok) <= allocated THEN allocated
    ELSE ProxyFor(tok)

\* UnknownCommand._registry holds its proxies weakly: a proxy no live object
\* refers to is reclaimed (reference counting)
Reclaim(unk, msg) ==
    [tok \in {k \in DOMAIN unk :
                 msg # [t |-> "None"] /\ msg.command.kind = "UnknownCommand"
                 /\ msg.command.cmd = k} |-> unk[tok]]

\* the proxies of UnknownCommand._registry that survive when the program
\* holds the references refs and nothing else refers to a proxy
Live(unk, refs) ==
    [tok \in {k \in DOMAIN unk : \E r \in refs : r.cmd = k /\ r.id = unk[k].obj}
        |-> unk[tok]]

(***************************************************************************)
(* Arguments (messages.py:65-273)                                          *)
(***************************************************************************)
NoCache == [n \in {} |-> Unset]

\* Arguments.__init__; _seq_len = -1 stands for None
Arguments(value, command) ==
    [_value |-> value, _command |-> command, _attr_cache |-> NoCache,
     _seq_len |-> -1]

\* a key of the dictionary handed to from_dict: an argument name or an integer
NameKey(n) == [isint |-> FALSE, name |-> n, pos |-> 0]
IntKey(i) == [isint |-> TRUE, name |-> "", pos |-> i]

Orders(S) ==
    {o \in [1..Cardinality(S) -> S] : \A i, j \in DOMAIN o : i # j => o[i] # o[j]}

Max(a, b) == IF a > b THEN a ELSE b

\* "if idx >= 0: head[idx] = val; highest_idx = max(...) else: tail[idx] = val"
\* (lines 101-106, 120-125 and 137-142)
Place(st, idx, val) ==
    IF idx >= 0
    THEN [st EXCEPT !.head = Put(st.head, idx, val),
                    !.highest_idx = Max(st.highest_idx, idx)]
    ELSE [st EXCEPT !.tail = Put(st.tail, idx, val)]

\* lines 98-125: the supplied values, in the order the dictionary yields them
RECURSIVE SuppliedLoop(_, _, _, _, _)
SuppliedLoop(c, value, order, i, st) ==
    IF i > Len(order) THEN st
    ELSE LET arg == order[i]
             val == value[arg]
         IN IF arg.isint
            THEN SuppliedLoop(c, value, order, i + 1, Place(st, arg.pos, val))
            ELSE IF arg.name \notin DOMAIN cmds[c]._arguments
                 THEN [st EXCEPT !.status = "KeyError"]
                 ELSE LET desc == cmds[c]._arguments[arg.name]
                      IN SuppliedLoop(c, value, order, i + 1,
                             Place([st EXCEPT !.seen = @ \cup {arg.name}],
                                   desc.idx, ArgToBytes(desc, val)))

\* line 131: the negation of "if desc.default is util.unset"
AnyDefault(desc) == TRUE
HasDefault(desc) == desc.default # Unset

\* lines 129-142: the defaults of the arguments that were not supplied
RECURSIVE DefaultsLoop(_, _, _, _)
DefaultsLoop(c, order, i, st) ==
    IF i > Len(order) THEN st
    ELSE LET desc == cmds[c]._arguments[order[i]]
         IN IF ~HasDefault(desc)
            THEN DefaultsLoop(c, order, i + 1, st)
            ELSE DefaultsLoop(c, order, i + 1,
                     Place(st, desc.idx, ArgToBytes(desc, desc.default)))

\* lines 146-151: fold the tail into the head (distinct tail positions give
\* distinct absolute positions, so the order of the loop does not matter)
FoldTailUncounted(st) ==
    LET total_len == st.highest_idx + 1
        folded == {total_len + orig_idx : orig_idx \in DOMAIN st.tail}
    IN [st EXCEPT
          !.head = [idx \in DOMAIN st.head \cup folded |->
                       IF idx \in folded THEN st.tail[idx - total_len]
                       ELSE st.head[idx]]]
FoldTail(st) ==
    LET total_len == st.highest_idx + 1 + Cardinality(DOMAIN st.tail)
        folded == {total_len + orig_idx : orig_idx \in DOMAIN st.tail}
    IN [st EXCEPT
          !.head = [idx \in DOMAIN st.head \cup folded |->
                       IF idx \in folded THEN st.tail[idx - total_len]
                       ELSE st.head[idx]],
          !.highest_idx = IF \E idx \in folded : idx > st.highest_idx
                          THEN CHOOSE idx \in folded : \A o \in folded : o <= idx
                          ELSE st.highest_idx]

\* lines 154-155: fill the gaps with unset
FillGaps(st) ==
    [st EXCEPT !.head = [idx \in DOMAIN st.head \cup 0..st.highest_idx |->
                            IF idx \in DOMAIN st.head THEN st.head[idx] ELSE Unset]]

\* line 159: the values by ascending position
RECURSIVE SortedValues(_)
SortedValues(head) ==
    IF DOMAIN head = {} THEN <<>>
    ELSE LET lo == CHOOSE k \in DOMAIN head : \A o \in DOMAIN head : k <= o
         IN <<head[lo]>> \o SortedValues([k \in DOMAIN head \ {lo} |-> head[k]])

\* lines 163-164: the name-keyed entries of the dictionary
EmptyCache(value) == NoCache
PrimedCache(value) ==
    [n \in {k.name : k \in {a \in DOMAIN value : ~a.isint}} |-> value[NameKey(n)]]

FromDictStart ==
    [head |-> [i \in {} |-> Unset], tail |-> [i \in {} |-> Unset],
     highest_idx |-> -1, seen |-> {}, status |-> "ok"]

\* Arguments.from_dict on the Command object c; order1 and order2 are the
\* orders in which value.items() and command.arguments - seen are iterated
from_dict(c, value, order1, order2) ==
    LET st1 == SuppliedLoop(c, value, order1, 1, FromDictStart)
    IN IF st1.status # "ok" THEN [status |-> st1.status, args |-> None]
       ELSE LET st == FillGaps(FoldTail(DefaultsLoop(c, order2, 1, st1)))
            IN [status |-> "ok",
                args |-> [Arguments(SortedValues(st.head), CommandRef(c))
                             EXCEPT !._attr_cache = PrimedCache(value)]]

\* the names from_dict iterates in its second loop
Unseen(c, value) ==
    Arguments_of(c) \ {k.name : k \in {a \in DOMAIN value : ~a.isint}}

\* Arguments.__len__: stored length less the trailing unset values
RECURSIVE TrimmedLen(_)
TrimmedLen(value) ==
    IF value = <<>> THEN 0
    ELSE IF value[Len(value)] = Unset
         THEN TrimmedLen(SubSeq(value, 1, Len(value) - 1))
         ELSE Len(value)

UntrimmedLen(args) == Len(args._value)
Arguments_len(args) ==
    IF args._seq_len = -1 THEN TrimmedLen(args._value) ELSE args._seq_len

\* the Arguments after len(self) was evaluated: _seq_len is filled in
Measured(args) == [args EXCEPT !._seq_len = Arguments_len(args)]

\* Arguments.__getitem__ with an integer (lines 221-226)
getitem_int(args, idx) ==
    LET n == Arguments_len(args)
    IN IF idx < -n \/ idx >= n THEN [status |-> "IndexError", val |-> None]
       ELSE [status |-> "ok",
             val |-> args._value[(IF idx < 0 THEN idx + n ELSE idx) + 1]]

\* a slice object: each of start, stop and step is None or an integer
NoBound == [given |-> FALSE, n |-> 0]
Bound(n) == [given |-> TRUE, n |-> n]
Slice(start, stop, step) == [start |-> start, stop |-> stop, step |-> step]

Min(a, b) == IF a < b THEN a ELSE b

\* slice.indices(len) for a step other than 0
SliceIndices(sl, len) ==
    LET step == IF sl.step.given THEN sl.step.n ELSE 1
        lower == IF step > 0 THEN 0 ELSE -1
        upper == IF step > 0 THEN len ELSE len - 1
        clamp(b, dflt) == IF ~b.given THEN dflt
                          ELSE IF b.n < 0 THEN Max(b.n + len, lower)
                          ELSE Min(b.n, upper)
    IN [start |-> clamp(sl.start, IF step < 0 THEN upper ELSE lower),
        stop |-> clamp(sl.stop, IF step < 0 THEN lower ELSE upper),
        step |-> step]

\* list(range(start, stop, step))
RECURSIVE Range(_, _, _)
Range(start, stop, step) ==
    IF (step > 0 /\ start >= stop) \/ (step < 0 /\ start <= stop) THEN <<>>
    ELSE <<start>> \o Range(start + step, stop, step)

\* Arguments.__getitem__ with a slice (lines 229-231)
getitem_slice(args, sl) ==
    IF sl.step.given /\ sl.step.n = 0 THEN [status |-> "ValueError", val |-> <<>>]
    ELSE LET ind == SliceIndices(sl, Arguments_len(args))
             r == Range(ind.start, ind.stop, ind.step)
         IN [status |-> "ok", val |-> [i \in DOMAIN r |-> args._value[r[i] + 1]]]

\* list indexing self._value[idx] of line 258; "IndexError" if out of range
ListIndex(lst, idx) ==
    IF idx >= 0
    THEN IF idx < Len(lst) THEN [status |-> "ok", val |-> lst[idx + 1]]
         ELSE [status |-> "IndexError", val |-> Unset]
    ELSE IF Len(lst) + idx >= 0
         THEN [status |-> "ok", val |-> lst[Len(lst) + idx + 1]]
         ELSE [status |-> "IndexError", val |-> Unset]

\* Arguments.__getattr__ (lines 238-273): outcome, cache and calls
GetAttrCacheFirst(args, attr) ==
    IF attr \in DOMAIN args._attr_cache
    THEN [status |-> "ok", val |-> args._attr_cache[attr], args |-> args,
          calls |-> <<>>]
    ELSE [status |-> "AttributeError", val |-> None, args |-> args, calls |-> <<>>]
getattr(args, attr) ==
    IF ~Contains(args._command, attr)
    THEN [status |-> "AttributeError", val |-> None, args |-> args, calls |-> <<>>]
    ELSE IF attr \in DOMAIN args._attr_cache
         THEN [status |-> "ok", val |-> args._attr_cache[attr], args |-> args,
               calls |-> <<>>]
         ELSE LET desc == cmds[Resolve(args._command)]._arguments[attr]
                  raw == ListIndex(args._value, desc.idx)
                  conv == IF raw.status = "ok" THEN ArgFromBytes(desc, raw.val)
                          ELSE Unset
                  value == IF conv = Unset THEN desc.default ELSE conv
              IN [status |-> "ok", val |-> value,
                  args |-> [args EXCEPT !._attr_cache = Put(@, attr, value)],
                  calls |-> IF raw.status = "ok" /\ desc.cls = "EntityArgument"
                            THEN <<Performed("get_entity", raw.val)>> ELSE <<>>]

(***************************************************************************)
(* Message (messages.py:276-440)                                           *)
(***************************************************************************)
NoMessage == [t |-> "None"]

\* Message.__init__
Message(origin, command, args) ==
    [origin |-> origin, command |-> command, args |-> args, _msg |-> None]

\* line 325: "if not parts[0]"
NeverEmpty(ps) == FALSE
IsEmptyMessage(ps) == ps[1] = <<>>

\* line 351: result._msg = msg
NotPrimed(msg) == None
PrimedMsg(msg) == Bytes(msg)

\* line 329: "if parts[idx][0] == b':'"
NeverOrigin(ps) == FALSE
OriginGiven(ps) == ps[1][1] = COLON

\* Message.from_bytes (lines 304-353): outcome, Message and calls
from_bytes(msg) ==
    LET ps == _argsplit(msg)
    IN IF ps = <<>> \/ (~IsEmptyMessage(ps) /\ ps[1] = <<>>)
       THEN \* parts[0] of an empty list, or parts[0][0] of an empty token
            [status |-> "IndexError", message |-> NoMessage, calls |-> <<>>]
       ELSE IF IsEmptyMessage(ps)
       THEN [status |-> "ok", message |-> NoMessage, calls |-> <<>>]
       ELSE LET prefixed == OriginGiven(ps)
                origin == IF prefixed THEN get_entity(Tail(ps[1])) ELSE ConnPeer
                idx == IF prefixed THEN 1 ELSE 0
                called == IF prefixed
                          THEN <<Performed("get_entity", Bytes(Tail(ps[1])))>>
                          ELSE <<>>
            IN IF Len(ps) > idx
               THEN LET command == get_command(ps[idx + 1])
                        args == Arguments(
                            [k \in 1..(Len(ps) - idx - 1) |-> Bytes(ps[idx + 1 + k])],
                            command)
                    IN [status |-> "ok",
                        message |-> [Message(origin, command, args)
                                        EXCEPT !._msg = PrimedMsg(msg)],
                        calls |-> called \o
                                  <<Performed("get_command", Bytes(ps[idx + 1])),
                                    Performed("Arguments", Bytes(ps[idx + 1])),
                                    Performed("Message", Bytes(ps[idx + 1]))>>]
               ELSE [status |-> "ok", message |-> NoMessage, calls |-> called]

\* line 429: "arg[0] == b':' or b' ' in arg"
OnlyLeadingColon(arg) == arg[1] = COLON
NeedsSentinel(arg) == arg[1] = COLON \/ \E k \in DOMAIN arg : arg[k] = SP

\* line 432: parts.append(b':' + arg)
Bare(arg) == arg
WithSentinel(arg) == <<COLON>> \o arg

\* line 415: "if self.origin is not self.conn.me"
AlwaysPrefixed(m) == TRUE
HasPrefix(m) == m.origin # ConnMe

\* lines 423-435: the loop over the arguments; iterating an Arguments visits
\* the positions below len(self)
RECURSIVE ArgParts(_, _, _, _, _)
ArgParts(value, i, n, sentinel, ps) ==
    IF i > n THEN [status |-> "ok", parts |-> ps]
    ELSE IF value[i] = Unset THEN ArgParts(value, i + 1, n, sentinel, ps)
    ELSE IF value[i].v = <<>> THEN [status |-> "IndexError", parts |-> ps]
    ELSE IF NeedsSentinel(value[i].v)
         THEN IF sentinel THEN [status |-> "ValueError", parts |-> ps]
              ELSE ArgParts(value, i + 1, n, TRUE,
                            Append(ps, WithSentinel(value[i].v)))
         ELSE ArgParts(value, i + 1, n, sentinel, Append(ps, value[i].v))

\* line 438: b' '.join(parts)
RECURSIVE Join(_)
Join(ps) ==
    IF ps = <<>> THEN <<>>
    ELSE IF Len(ps) = 1 THEN ps[1]
    ELSE ps[1] \o <<SP>> \o Join(Tail(ps))

\* Message.msg (lines 404-440): outcome and the Message afterwards
msg_of(m) ==
    IF m._msg # None
    THEN [status |-> "ok", val |-> m._msg, message |-> m]
    ELSE LET n == Arguments_len(m.args)
             measured == [m EXCEPT !.args._seq_len = n]
             start == (IF HasPrefix(m)
                       THEN <<<<COLON>> \o EntityToBytes(m.origin)>>
                       ELSE <<>>) \o <<m.command.cmd>>
             r == ArgParts(m.args._value, 1, n, FALSE, start)
         IN IF r.status # "ok"
            THEN [status |-> r.status, val |-> None, message |-> measured]
            ELSE [status |-> "ok", val |-> Bytes(Join(r.parts)),
                  message |-> [measured EXCEPT !._msg = Bytes(Join(r.parts))]]

(***************************************************************************)
(* The inputs of the operations                                            *)
(***************************************************************************)
UserToken == <<"a">>

\* Command(cmd).add_argument(d1).add_argument(d2)...
RECURSIVE Declared(_, _)
Declared(cmd, descs) ==
    IF descs = <<>> THEN Command(cmd)
    ELSE add_argument(Declared(cmd, SubSeq(descs, 1, Len(descs) - 1)),
                      descs[Len(descs)]).command

\* the Command the program declares and registers under UserToken, one of:
\* two head arguments; a head and a tail argument; a lone argument at
\* position 1; a head argument and one with a default; an entity argument
\* and a tail argument; two arguments declared at the same position
Schemas ==
    {Declared(UserToken, <<Argument("x", 0, Unset), Argument("y", 1, Unset)>>),
     Declared(UserToken, <<Argument("x", 0, Unset), Argument("y", -1, Unset)>>),
     Declared(UserToken, <<Argument("x", 1, Unset)>>),
     Declared(UserToken, <<Argument("x", 0, Unset),
                           Argument("y", 1, Bytes(<<"a">>))>>),
     Declared(UserToken, <<EntityArgument("z", 0, Unset),
                           Argument("y", -1, Unset)>>),
     Declared(UserToken, <<Argument("x", 1, Unset), Argument("y", 1, Unset)>>)}

\* argument values: empty, plain, starting with ':', containing a space
BytesValues ==
    {Bytes(<<>>), Bytes(<<"a">>), Bytes(<<COLON>>), Bytes(<<"a", SP, "a">>)}
EntityValues == {ConnMe, Entity(<<"a">>)}
Origins == {ConnMe, Entity(<<"a">>)}

\* names read by attribute access
Names == {"token", "x", "y", "z"}

\* the dictionaries handed to Message.new for the Command object c: each
\* declared name is given a value of the type its descriptor converts, and
\* "q" is a name no Command declares
ValueMaps(c) ==
    LET declared == DOMAIN cmds[c]._arguments
        allowed(n) == IF n \in declared /\ cmds[c]._arguments[n].cls = "EntityArgument"
                      THEN EntityValues ELSE BytesValues
    IN UNION {{value \in [{NameKey(n) : n \in ns} -> BytesValues \cup EntityValues] :
                   \A k \in DOMAIN value : value[k] \in allowed(k.name)} :
              ns \in SUBSET (declared \cup {"q"})}

\* the raw argument lists handed to Arguments()
ArgLists ==
    UNION {[1..k -> BytesValues \cup {Unset}] : k \in 0..MaxSeqLen}

(***************************************************************************)
(* The state after the modules are imported (commands.py:302-310) and the  *)
(* program has declared and registered its own Command                     *)
(***************************************************************************)
BuiltIn(cmd) == add_argument(Command(cmd), Argument("token", 0, Unset)).command

BuiltInRegistry ==
    register(register([tok \in {} |-> 0], PING, 1).registry, PONG, 2).registry

NoCall == [command |-> 0, kwargs |-> [k \in {} |-> Unset]]

InitProgram ==
    /\ \E schema \in Schemas : cmds = <<BuiltIn(PING), BuiltIn(PONG), schema>>
    /\ registry = register(BuiltInRegistry, UserToken, 3).registry
    /\ unknown = NoUnknown
    /\ message = NoMessage
    /\ via = "none"
    /\ newcall = NoCall
    /\ ret = NoOutcome
    /\ calls = <<>>
    /\ held = {}
    /\ allocated = 0

Init ==
    /\ InitProgram
    /\ line = <<>>
    /\ parts = <<>>
    /\ pc = "idle"

InitSplit ==
    /\ InitProgram
    /\ line \in Lines
    /\ parts = <<>>
    /\ pc = "call"

(***************************************************************************)
(* Operations                                                              *)
(***************************************************************************)
\* list(_argsplit(line))
ArgSplit ==
    /\ pc = "call"
    /\ parts' = _argsplit(line)
    /\ pc' = "done"
    /\ UNCHANGED <<line, cmds, registry, unknown, message, via, newcall, ret, calls,
                   held, allocated>>

\* Message.from_bytes(ctxt, conn, l); the program keeps the result as its
\* message, how tells where the line came from
Decode(l, how) ==
    LET r == from_bytes(l)
    IN /\ ret' = Outcome("from_bytes", "", r.status,
                         IF r.message = NoMessage THEN None
                         ELSE [t |-> "Message", v |-> <<>>])
       /\ message' = r.message
       /\ via' = IF r.message = NoMessage THEN "absent" ELSE how
       /\ unknown' = IF r.message = NoMessage THEN Reclaim(unknown, NoMessage)
                     ELSE Reclaim(UnknownAfterGet(r.message.command.cmd), r.message)
       /\ calls' = r.calls
       /\ allocated' = IF r.message = NoMessage THEN allocated
                       ELSE AllocatedAfterGet(r.message.command.cmd)
       /\ UNCHANGED <<parts, pc, cmds, registry, held>>

\* a line arrives from the peer and is decoded
FromBytes(l) ==
    /\ Decode(l, "decoded")
    /\ line' = l
    /\ newcall' = NoCall

\* the line a Message built by Message.new encodes to comes back and is decoded
Echo ==
    /\ via = "new"
    /\ message._msg # None
    /\ Decode(message._msg.v, "echo")
    /\ line' = message._msg.v
    /\ UNCHANGED newcall

\* Message.new(ctxt, conn, command, **value) (messages.py:355-377)
MessageNew(c, value, order1, order2) ==
    LET r == from_dict(c, value, order1, order2)
    IN /\ ret' = Outcome("new", "", r.status,
                         IF r.status = "ok" THEN [t |-> "Message", v |-> <<>>]
                         ELSE None)
       /\ IF r.status = "ok"
          THEN /\ message' = Message(ConnMe, CommandRef(c), r.args)
               /\ via' = "new"
               /\ newcall' = [command |-> c, kwargs |-> value]
               /\ cmds' = CmdsAfterArguments(c)
          ELSE /\ via' = "absent"
               /\ UNCHANGED <<message, newcall, cmds>>
       /\ calls' = <<>>
       /\ UNCHANGED <<line, parts, pc, registry, unknown, held, allocated>>

\* Message(ctxt, conn, origin, command, Arguments(ctxt, conn, value, command))
MessageInit(origin, c, value) ==
    /\ message' = Message(origin, CommandRef(c), Arguments(value, CommandRef(c)))
    /\ via' = "init"
    /\ newcall' = NoCall
    /\ ret' = Outcome("Message", "", "ok", [t |-> "Message", v |-> <<>>])
    /\ calls' = <<>>
    /\ UNCHANGED <<line, parts, pc, cmds, registry, unknown, held, allocated>>

\* reading message.msg
Msg ==
    LET r == msg_of(message)
    IN /\ message # NoMessage
       /\ ret' = Outcome("msg", "", r.status, r.val)
       /\ message' = r.message
       /\ calls' = <<>>
       /\ UNCHANGED <<line, parts, pc, cmds, registry, unknown, via, newcall,
                      held, allocated>>

\* reading message.args.<attr>
GetAttr(attr) ==
    LET r == getattr(message.args, attr)
    IN /\ message # NoMessage
       /\ ret' = Outcome("getattr", attr, r.status, r.val)
       /\ message' = [message EXCEPT !.args = r.args]
       /\ unknown' = UnknownAfterAccess(message.command)
       /\ calls' = r.calls
       /\ UNCHANGED <<line, parts, pc, cmds, registry, via, newcall, held, allocated>>

\* message.args._attr_cache[attr] = val: the program writes the decode cache
\* itself, as the unit tests of __getattr__ do; via records that it did
PrimedNames == {"token", "y"}

PrimeCache(attr, val) ==
    /\ via \in {"new", "init", "decoded"}
    /\ message' = [message EXCEPT !.args._attr_cache = Put(@, attr, val)]
    /\ via' = "primed"
    /\ ret' = Outcome("prime", attr, "ok", None)
    /\ calls' = <<>>
    /\ UNCHANGED <<line, parts, pc, cmds, registry, unknown, newcall, held, allocated>>

\* the program asks for one Message and then works on it
Next ==
    \/ via = "none" /\ \E l \in WireLines : FromBytes(l)
    \/ via = "none" /\ \E c \in 1..Len(cmds) : \E value \in ValueMaps(c) :
          \E order1 \in Orders(DOMAIN value) :
             \E order2 \in Orders(Unseen(c, value)) :
                MessageNew(c, value, order1, order2)
    \/ via = "none" /\ \E origin \in Origins : \E value \in ArgLists :
          MessageInit(origin, 1, value)
    \/ Echo
    \/ Msg
    \/ \E attr \in Names : GetAttr(attr)
    \/ \E attr \in PrimedNames : PrimeCache(attr, Bytes(<<"c">>))

Spec == Init /\ [][Next]_vars

NextSplit == ArgSplit

SpecSplit == InitSplit /\ [][NextSplit]_vars

(***************************************************************************)
(* The registry operations of a program: it creates Command objects,       *)
(* declares arguments, registers, looks tokens up and works with the       *)
(* proxies get_command hands out                                           *)
(***************************************************************************)
RegTokens == {PING, UserToken}

\* the descriptors handed to add_argument; two of them share a name
ArgDescs ==
    {Argument("x", 0, Unset), Argument("x", 1, Unset), Argument("y", -1, Unset)}

\* names asked of a proxy
RegNames == {"x", "token"}

\* what an operation was applied to: a token, a Command object, a name
Target(tok, c, name) == [cmd |-> tok, id |-> c, name |-> name]

RefVal(ref) == [t |-> "ref", v |-> ref]
BoolVal(b) == [t |-> "bool", v |-> b]
NamesVal(ns) == [t |-> "names", v |-> ns]

\* the state after the modules are imported (commands.py:302-310)
InitRegistry ==
    /\ cmds = <<BuiltIn(PING), BuiltIn(PONG)>>
    /\ registry = BuiltInRegistry
    /\ unknown = NoUnknown
    /\ message = NoMessage
    /\ via = "none"
    /\ newcall = NoCall
    /\ ret = NoOutcome
    /\ calls = <<>>
    /\ held = {}
    /\ allocated = 0
    /\ line = <<>>
    /\ parts = <<>>
    /\ pc = "idle"

\* Command(tok)
CommandInit(tok) ==
    /\ Len(cmds) < MaxCmds
    /\ cmds' = Append(cmds, Command(tok))
    /\ ret' = Outcome("Command", Target(tok, Len(cmds) + 1, ""), "ok", None)
    /\ calls' = <<>>
    /\ UNCHANGED <<line, parts, pc, registry, unknown, message, via, newcall,
                   held, allocated>>

\* cmds[c].add_argument(desc)
AddArgument(c, desc) ==
    LET r == add_argument(cmds[c], desc)
    IN /\ cmds' = [cmds EXCEPT ![c] = r.command]
       /\ ret' = Outcome("add_argument", Target(cmds[c].cmd, c, desc.name),
                         r.status, None)
       /\ calls' = <<>>
       /\ UNCHANGED <<line, parts, pc, registry, unknown, message, via, newcall,
                      held, allocated>>

\* Command.register(cmds[c])
Register(c) ==
    LET r == register(registry, cmds[c].cmd, c)
    IN /\ registry' = r.registry
       /\ ret' = Outcome("register", Target(cmds[c].cmd, c, ""), r.status, None)
       /\ calls' = <<>>
       /\ UNCHANGED <<line, parts, pc, cmds, unknown, message, via, newcall,
                      held, allocated>>

\* Command.lookup(tok)
Lookup(tok) ==
    LET r == lookup(registry, tok)
    IN /\ ret' = Outcome("lookup", Target(tok, 0, ""), r.status,
                         IF r.status = "ok" THEN RefVal(CommandRef(r.id)) ELSE None)
       /\ calls' = <<>>
       /\ UNCHANGED <<line, parts, pc, cmds, registry, unknown, message, via,
                      newcall, held, allocated>>

\* p = get_command(tok); the program keeps the proxy it is handed
GetCommand(tok) ==
    LET ref == get_command(tok)
    IN /\ AllocatedAfterGet(tok) <= MaxProxies
       /\ ret' = Outcome("get_command", Target(tok, 0, ""), "ok", RefVal(ref))
       /\ unknown' = UnknownAfterGet(tok)
       /\ allocated' = AllocatedAfterGet(tok)
       /\ held' = IF ref.kind = "UnknownCommand" THEN held \cup {ref} ELSE held
       /\ calls' = IF AllocatedAfterGet(tok) > allocated
                   THEN <<Performed("object.__new__", Bytes(tok))>> ELSE <<>>
       /\ UNCHANGED <<line, parts, pc, cmds, registry, message, via, newcall>>

\* del p: the program gives up its reference to a proxy
Drop(p) ==
    /\ held' = held \ {p}
    /\ ret' = NoOutcome
    /\ calls' = <<>>
    /\ UNCHANGED <<line, parts, pc, cmds, registry, unknown, message, via, newcall,
                   allocated>>

\* the proxies nothing refers to any more leave the weak registry, at once
\* (reference counting) or some time after the last reference went
Collect ==
    /\ Live(unknown, held) # unknown
    /\ unknown' = Live(unknown, held)
    /\ ret' = NoOutcome
    /\ calls' = <<>>
    /\ UNCHANGED <<line, parts, pc, cmds, registry, message, via, newcall,
                   held, allocated>>

\* name in p
ProxyContains(p, name) ==
    /\ ret' = Outcome("contains", Target(p.cmd, p.id, name), "ok",
                      BoolVal(Contains(p, name)))
    /\ unknown' = UnknownAfterAccess(p)
    /\ calls' = <<>>
    /\ UNCHANGED <<line, parts, pc, cmds, registry, message, via, newcall,
                   held, allocated>>

\* p[name]
ProxyGetItem(p, name) ==
    LET r == GetItem(p, name)
    IN /\ ret' = Outcome("getitem", Target(p.cmd, p.id, name), r.status, r.desc)
       /\ unknown' = UnknownAfterAccess(p)
       /\ calls' = <<>>
       /\ UNCHANGED <<line, parts, pc, cmds, registry, message, via, newcall,
                      held, allocated>>

\* p.arguments
ProxyArgumentsRead(p) ==
    /\ ret' = Outcome("proxy.arguments", Target(p.cmd, p.id, ""), "ok",
                      NamesVal(ProxyArguments(p)))
    /\ unknown' = UnknownAfterAccess(p)
    /\ cmds' = IF Resolve(p) = 0 THEN cmds ELSE CmdsAfterArguments(Resolve(p))
    /\ calls' = <<>>
    /\ UNCHANGED <<line, parts, pc, registry, message, via, newcall, held,
                   allocated>>

\* cmds[c].arguments
ArgumentsRead(c) ==
    /\ ret' = Outcome("arguments", Target(cmds[c].cmd, c, ""), "ok",
                      NamesVal(Arguments_of(c)))
    /\ cmds' = CmdsAfterArguments(c)
    /\ calls' = <<>>
    /\ UNCHANGED <<line, parts, pc, registry, unknown, message, via, newcall,
                   held, allocated>>

NextRegistry ==
    \/ \E tok \in RegTokens : CommandInit(tok)
    \/ \E c \in 3..Len(cmds) : \E desc \in ArgDescs : AddArgument(c, desc)
    \/ \E c \in 1..Len(cmds) : Register(c)
    \/ \E tok \in RegTokens : Lookup(tok)
    \/ \E tok \in RegTokens : GetCommand(tok)
    \/ \E p \in held : Drop(p)
    \/ Collect
    \/ \E p \in held : \E name \in RegNames : ProxyContains(p, name)
    \/ \E p \in held : \E name \in RegNames : ProxyGetItem(p, name)
    \/ \E p \in held : ProxyArgumentsRead(p)
    \/ \E c \in 3..Len(cmds) : ArgumentsRead(c)

SpecRegistry == InitRegistry /\ [][NextRegistry]_vars

(***************************************************************************)
(* Arguments on their own: a program builds one, from a dictionary or from *)
(* a list, and reads it by position                                        *)
(***************************************************************************)
\* the Command the program declares: a head and two tail arguments; a head
\* argument, a defaulted head argument and a tail argument; a head argument,
\* a tail argument and a defaulted tail argument
ArgSchemas ==
    {Declared(UserToken, <<Argument("x", 0, Unset), Argument("y", -1, Unset),
                           Argument("z", -2, Unset)>>),
     Declared(UserToken, <<Argument("x", 0, Unset), Argument("y", -1, Unset),
                           Argument("z", 1, Bytes(<<"b">>))>>),
     Declared(UserToken, <<Argument("x", 0, Unset), Argument("y", -1, Unset),
                           Argument("z", -2, Bytes(<<"b">>))>>)}

\* the Commands from_dict is called with: PING and the program's own
ArgCommands == {1, 3}

\* integer keys and values of the dictionaries
DictPositions == {0, 1, -1, -2}
DictValues == {Bytes(<<"a">>), Bytes(<<"b">>)}

DictKeys(c) ==
    {NameKey(n) : n \in DOMAIN cmds[c]._arguments}
        \cup {IntKey(i) : i \in DictPositions}

DictMaps(c) ==
    UNION {[ks -> DictValues] :
              ks \in {k \in SUBSET DictKeys(c) : Cardinality(k) <= MaxKeys}}

\* the lists handed to Arguments()
PosLists == UNION {[1..k -> DictValues \cup {Unset}] : k \in 0..MaxSeqLen}

\* the integers and slices used as subscripts
Indexes == (-(MaxSeqLen + 1))..MaxSeqLen
SliceBounds == {NoBound} \cup {Bound(n) : n \in Indexes}
Steps == {NoBound, Bound(2), Bound(-1)}

ListVal(lst) == [t |-> "list", v |-> lst]
IntVal(n) == [t |-> "int", v |-> n]

InitArgs ==
    /\ \E schema \in ArgSchemas : cmds = <<BuiltIn(PING), BuiltIn(PONG), schema>>
    /\ registry = register(BuiltInRegistry, UserToken, 3).registry
    /\ unknown = NoUnknown
    /\ message = NoMessage
    /\ via = "none"
    /\ newcall = NoCall
    /\ ret = NoOutcome
    /\ calls = <<>>
    /\ held = {}
    /\ allocated = 0
    /\ line = <<>>
    /\ parts = <<>>
    /\ pc = "idle"

\* Arguments.from_dict(ctxt, conn, command, value); the program keeps the
\* result in a Message of its own
FromDict(c, value, order1, order2) ==
    LET r == from_dict(c, value, order1, order2)
    IN /\ ret' = Outcome("from_dict", "", r.status, None)
       /\ IF r.status = "ok"
          THEN /\ message' = Message(ConnMe, CommandRef(c), r.args)
               /\ via' = "from_dict"
               /\ newcall' = [command |-> c, kwargs |-> value]
               /\ cmds' = CmdsAfterArguments(c)
          ELSE /\ via' = "absent"
               /\ UNCHANGED <<message, newcall, cmds>>
       /\ calls' = <<>>
       /\ UNCHANGED <<line, parts, pc, registry, unknown, held, allocated>>

\* the program reads the Arguments by position right after it built them, or
\* after it took their length
Fresh == message # NoMessage /\ (message.args._seq_len = -1 \/ ret.op = "len")

\* len(message.args)
ArgsLen ==
    /\ message # NoMessage
    /\ message.args._seq_len = -1
    /\ ret' = Outcome("len", "", "ok", IntVal(Arguments_len(message.args)))
    /\ message' = [message EXCEPT !.args = Measured(message.args)]
    /\ calls' = <<>>
    /\ UNCHANGED <<line, parts, pc, cmds, registry, unknown, via, newcall, held,
                   allocated>>

\* message.args[idx] with an integer
GetItemInt(idx) ==
    LET r == getitem_int(message.args, idx)
    IN /\ ret' = Outcome("getitem_int", IntVal(idx), r.status, r.val)
       /\ message' = [message EXCEPT !.args = Measured(message.args)]
       /\ calls' = <<>>
       /\ UNCHANGED <<line, parts, pc, cmds, registry, unknown, via, newcall,
                      held, allocated>>

\* message.args[start:stop:step]
GetItemSlice(sl) ==
    LET r == getitem_slice(message.args, sl)
    IN /\ ret' = Outcome("getitem_slice", sl, r.status, ListVal(r.val))
       /\ message' = [message EXCEPT !.args = Measured(message.args)]
       /\ calls' = <<>>
       /\ UNCHANGED <<line, parts, pc, cmds, registry, unknown, via, newcall,
                      held, allocated>>

NextArgs ==
    \/ via = "none" /\ \E c \in ArgCommands : \E value \in DictMaps(c) :
          \E order1 \in Orders(DOMAIN value) :
             \E order2 \in Orders(Unseen(c, value)) :
                FromDict(c, value, order1, order2)
    \/ via = "none" /\ \E value \in PosLists : MessageInit(ConnMe, 1, value)
    \/ ArgsLen
    \/ Fresh /\ \E idx \in Indexes : GetItemInt(idx)
    \/ Fresh /\ \E start \in SliceBounds : \E stop \in SliceBounds :
          \E step \in Steps : GetItemSlice(Slice(start, stop, step))

SpecArgs == InitArgs /\ [][NextArgs]_vars

(***************************************************************************)
(* Vocabulary of the properties                                            *)
(***************************************************************************)
AllSpaces(s) == \A i \in DOMAIN s : s[i] = SP

StartsWith(s, p) == Len(s) >= Len(p) /\ SubSeq(s, 1, Len(p)) = p

\* position of the first space of s, Len(s) + 1 if it has none
FirstSpace(s) ==
    IF \E i \in DOMAIN s : s[i] = SP
    THEN CHOOSE i \in DOMAIN s : s[i] = SP /\ \A j \in 1..(i - 1) : s[j] # SP
    ELSE Len(s) + 1

\* position of the first ':' that directly follows a space, 0 if there is none
SentinelAt(s) ==
    IF \E k \in 2..Len(s) : s[k] = COLON /\ s[k - 1] = SP
    THEN CHOOSE k \in 2..Len(s) :
             /\ s[k] = COLON /\ s[k - 1] = SP
             /\ \A j \in 2..(k - 1) : ~(s[j] = COLON /\ s[j - 1] = SP)
    ELSE 0

\* the maximal runs of non-space characters of s, by their first positions
RunStarts(s) == {i \in DOMAIN s : s[i] # SP /\ (i = 1 \/ s[i - 1] = SP)}
RunEnd(s, i) ==
    CHOOSE e \in i..Len(s) :
        /\ \A j \in i..e : s[j] # SP
        /\ e = Len(s) \/ s[e + 1] = SP
NthRunStart(s, n) ==
    CHOOSE i \in RunStarts(s) : Cardinality({j \in RunStarts(s) : j <= i}) = n

\* a value needs the sentinel: it starts with ':' or contains a space
Trailing(val) ==
    /\ val # Unset
    /\ val.v # <<>>
    /\ val.v[1] = COLON \/ \E k \in DOMAIN val.v : val.v[k] = SP

TrailingCount(value) == Cardinality({i \in DOMAIN value : Trailing(value[i])})

IsSet(val) == val # Unset

\* the part a value contributes to the line
PartOf(val) == IF Trailing(val) THEN <<COLON>> \o val.v ELSE val.v

\* the text s consists of the parts ps, each but the first preceded by
\* exactly one space
RECURSIVE PartsWidth(_, _)
PartsWidth(ps, n) == IF n = 0 THEN 0 ELSE PartsWidth(ps, n - 1) + Len(ps[n]) + 1

JoinedBySpaces(s, ps) ==
    /\ Len(s) = IF ps = <<>> THEN 0 ELSE PartsWidth(ps, Len(ps)) - 1
    /\ \A n \in DOMAIN ps :
          /\ SubSeq(s, PartsWidth(ps, n - 1) + 1, PartsWidth(ps, n) - 1) = ps[n]
          /\ n > 1 => s[PartsWidth(ps, n - 1)] = SP

\* the first parts of an encoded line: the origin prefix, if any, and the command
LeadingParts(m) ==
    (IF m.origin = ConnMe THEN <<>> ELSE <<<<COLON>> \o m.origin.v>>)
        \o <<m.command.cmd>>

\* the line holds an origin prefix and nothing else but trailing spaces
PrefixOnly(s) ==
    /\ s # <<>>
    /\ s[1] = COLON
    /\ \A i \in FirstSpace(s)..Len(s) : s[i] = SP

\* the wire form of each keyword value is free of the sentinel's triggers
Unambiguous(value) ==
    \A k \in DOMAIN value :
        /\ value[k].v # <<>> => value[k].v[1] # COLON
        /\ \A i \in DOMAIN value[k].v : value[k].v[i] # SP

Computed == ret.op = "msg" /\ via \in {"new", "init"} /\ ret.status = "ok"

(***************************************************************************)
(* Properties of the tokenizer, checked under SpecSplit                    *)
(***************************************************************************)
\* C5: when a ':' is the first non-space character met after the spaces that
\* follow a completed token, the final token is the rest of the line after
\* that ':', verbatim, and no token is produced after it.
C5_SentinelTakesRest ==
    (pc = "done" /\ SentinelAt(line) # 0) =>
        LET k == SentinelAt(line)
            before == SubSeq(line, 1, k - 1)
        IN /\ parts # <<>>
           /\ parts[Len(parts)] = SubSeq(line, k + 1, Len(line))
           /\ Len(parts) = Cardinality(RunStarts(before))
                              + (IF line[1] = SP THEN 1 ELSE 0) + 1

C5_Witness ==
    /\ pc = "done"
    /\ SentinelAt(line) # 0
    /\ SentinelAt(line) + 3 <= Len(line)
    /\ line[Len(line)] = SP
    /\ parts[Len(parts)] = SubSeq(line, SentinelAt(line) + 1, Len(line))

\* C6: for a line that does not start with a space and in which no ':'
\* directly follows a space, the tokens are exactly the maximal runs of
\* non-space characters, in order; none is empty or contains a space.
C6_TokensAreRuns ==
    (pc = "done" /\ line # <<>> /\ line[1] # SP /\ SentinelAt(line) = 0) =>
        /\ Len(parts) = Cardinality(RunStarts(line))
        /\ \A n \in DOMAIN parts :
              /\ parts[n] = SubSeq(line, NthRunStart(line, n),
                                   RunEnd(line, NthRunStart(line, n)))
              /\ parts[n] # <<>>
              /\ \A i \in DOMAIN parts[n] : parts[n][i] # SP

C6_Witness ==
    /\ pc = "done"
    /\ line # <<>> /\ line[1] # SP /\ SentinelAt(line) = 0
    /\ \E i \in 2..Len(line) : line[i] = SP /\ line[i - 1] = SP
    /\ line[Len(line)] = SP
    /\ Len(parts) = 2

\* C7: the first character of the line begins an ordinary token even when it
\* is ':': the first token of such a line includes the ':' and ends at the
\* first space.
C7_FirstTokenOrdinary ==
    (pc = "done" /\ line # <<>> /\ line[1] = COLON) =>
        /\ parts # <<>>
        /\ parts[1] = SubSeq(line, 1, FirstSpace(line) - 1)
        /\ parts[1][1] = COLON

C7_Witness ==
    /\ pc = "done"
    /\ line # <<>> /\ line[1] = COLON
    /\ SentinelAt(line) # 0
    /\ Len(parts) = 2
    /\ Len(parts[1]) >= 2

\* C8 as stated: an empty line, or a line of spaces only, yields no tokens.
C8_NoTokens ==
    (pc = "done" /\ AllSpaces(line)) => parts = <<>>

\* C8 as amended: an empty line, or a line of spaces only, yields exactly one
\* token, the empty byte string.
C8_OneEmptyToken ==
    (pc = "done" /\ AllSpaces(line)) => parts = << <<>> >>

C8_Witness ==
    /\ pc = "done"
    /\ AllSpaces(line)
    /\ Len(line) >= 2
    /\ parts = << <<>> >>

(***************************************************************************)
(* Properties of Message and Arguments, checked under Spec                 *)
(***************************************************************************)
\* C1: reading msg on a Message that from_bytes returned gives back the
\* original line byte for byte, whatever its spacing.
C1_DecodedMsgIsRawLine ==
    (ret.op = "msg" /\ via \in {"decoded", "echo"}) =>
        /\ ret.status = "ok"
        /\ ret.val = Bytes(line)
        /\ message._msg = Bytes(line)

C1_Witness ==
    /\ ret.op = "msg"
    /\ via = "decoded"
    /\ \E i \in 2..Len(line) : line[i] = SP /\ line[i - 1] = SP
    /\ Len(message.args._value) = 1
    /\ ret.val = Bytes(line)

\* C2 as stated: after from_dict(C, V), msg, from_bytes of that line, named
\* access to each name of V returns the original value of that name, provided
\* no value of V starts with ':' or contains a space.
C2_RoundTrip ==
    (/\ ret.op = "getattr"
     /\ via = "echo"
     /\ NameKey(ret.arg) \in DOMAIN newcall.kwargs
     /\ Unambiguous(newcall.kwargs)
     /\ message.command = CommandRef(newcall.command)) =>
        /\ ret.status = "ok"
        /\ ret.val = newcall.kwargs[NameKey(ret.arg)]

\* C3 as stated: msg fails with ValueError (multiple trailing arguments)
\* whenever two or more values need the sentinel, and the failed encode leaves
\* the cached byte form absent.
C3_MultipleTrailingFails ==
    (/\ ret.op = "msg"
     /\ via \in {"new", "init"}
     /\ TrailingCount(message.args._value) >= 2) =>
        /\ ret.status = "ValueError"
        /\ message._msg = None

C9_ComputedLineParts ==
    Computed =>
        LET given == SelectSeq(message.args._value, IsSet)
        IN /\ TrailingCount(message.args._value) <= 1
           /\ JoinedBySpaces(ret.val.v,
                 LeadingParts(message) \o [i \in DOMAIN given |-> PartOf(given[i])])

C9_Witness ==
    /\ Computed
    /\ Len(message.args._value) = 3
    /\ message.args._value[2] = Unset
    /\ message.args._value[3] = Bytes(<<"a", SP, "a">>)
    /\ message.args._value[1] = Bytes(<<"a">>)
    /\ ret.val = Bytes(<<COLON, "a", SP>> \o PING \o <<SP, "a", SP, COLON, "a", SP, "a">>)

\* C10: a computed line starts with the part ':' + origin wire form exactly
\* when the origin is not conn.me, and otherwise with the command token; a
\* Message built by Message.new never encodes with an origin prefix.
C10_PrefixIffNotMe ==
    Computed =>
        LET text == ret.val.v
            prefix == <<COLON>> \o message.origin.v \o <<SP>>
            cmd == message.command.cmd
        IN /\ message.origin # ConnMe => StartsWith(text, prefix \o cmd)
           /\ message.origin = ConnMe =>
                 /\ StartsWith(text, cmd)
                 /\ ~StartsWith(text, prefix)
                 /\ Len(text) > Len(cmd) => text[Len(cmd) + 1] = SP
           /\ via = "new" => message.origin = ConnMe /\ text[1] # COLON

C10_Witness ==
    /\ Computed
    /\ via = "new"
    /\ message.command.cmd = PING
    /\ ret.val = Bytes(PING \o <<SP, "a">>)

\* C11: in a line that msg computes, an argument emitted with the sentinel
\* prefix is the final part of the line: no argument part follows it.
C11_SentinelPartIsLast ==
    Computed =>
        LET given == SelectSeq(message.args._value, IsSet)
            sent == <<COLON>> \o given[Len(given)].v
            text == ret.val.v
        IN \A i \in DOMAIN given :
              Trailing(given[i]) =>
                  /\ i = Len(given)
                  /\ Len(text) > Len(sent)
                  /\ SubSeq(text, Len(text) - Len(sent), Len(text)) = <<SP>> \o sent

(***************************************************************************)
(* Properties of the registry and the proxies, checked under SpecRegistry  *)
(***************************************************************************)
\* the last operation was op
Did(op) == ret.op = op

\* C12: get_command returns the Command registered under the token when there
\* is one; otherwise an UnknownCommand proxy of that token, and as long as the
\* program holds a proxy of a token every call for that token returns that
\* very instance: no two live proxies share a token.
C12_OneProxyPerToken ==
    /\ Did("get_command") =>
          LET tok == ret.arg.cmd
              ref == ret.val.v
          IN IF tok \in DOMAIN registry
             THEN ref = CommandRef(registry[tok]) /\ ref.cmd = tok /\ calls = <<>>
             ELSE /\ ref.kind = "UnknownCommand"
                  /\ ref.cmd = tok
                  /\ ref \in held
                  /\ unknown[tok].obj = ref.id
    /\ \A p, q \in held : p.cmd = q.cmd => p.id = q.id

\* a repeated call handed out the proxy already held: nothing was allocated
C12_Witness ==
    /\ Did("get_command")
    /\ ret.arg.cmd = UserToken
    /\ ret.val.v.kind = "UnknownCommand"
    /\ ret.val.v.id = 1
    /\ calls = <<>>
    /\ held = {ret.val.v}

\* the declared arguments of the Command registered under tok
RegisteredArguments(tok) == cmds[registry[tok]]._arguments

\* C13: while its token is unregistered a proxy has no arguments, contains no
\* name and fails every descriptor lookup with KeyError; once a Command is
\* registered under the token the same proxy object answers membership,
\* descriptor lookup and arguments exactly as that Command does.
C13_ProxyFollowsRegistry ==
    LET tok == ret.arg.cmd
        name == ret.arg.name
        known == tok \in DOMAIN registry
    IN /\ Did("contains") \/ Did("getitem") \/ Did("proxy.arguments") =>
             /\ \E p \in held : p.cmd = tok /\ p.id = ret.arg.id
             /\ unknown[tok].obj = ret.arg.id
       /\ Did("contains") =>
             ret.val.v = (known /\ name \in DOMAIN RegisteredArguments(tok))
       /\ Did("getitem") =>
             IF known /\ name \in DOMAIN RegisteredArguments(tok)
             THEN ret.status = "ok" /\ ret.val = RegisteredArguments(tok)[name]
             ELSE ret.status = "KeyError"
       /\ Did("proxy.arguments") =>
             ret.val.v = IF known THEN DOMAIN RegisteredArguments(tok) ELSE {}

\* a proxy handed out before the registration finds a descriptor afterwards
C13_Witness ==
    /\ Did("getitem")
    /\ ret.arg.cmd = UserToken
    /\ ret.arg.name = "x"
    /\ ret.arg.id = 1
    /\ allocated = 1
    /\ ret.status = "ok"
    /\ ret.val = Argument("x", 1, Unset)

\* C14: Command.register fails with ValueError exactly when the registry
\* already has an entry under the Command's token, and then leaves the
\* registry as it was; otherwise it succeeds, enters the Command under its
\* token and changes no other entry.
C14_RegisterRejectsDuplicates ==
    [][ret'.op = "register" =>
          LET tok == ret'.arg.cmd
              c == ret'.arg.id
          IN IF tok \in DOMAIN registry
             THEN ret'.status = "ValueError" /\ registry' = registry
             ELSE /\ ret'.status = "ok"
                  /\ DOMAIN registry' = DOMAIN registry \cup {tok}
                  /\ registry'[tok] = c
                  /\ \A k \in DOMAIN registry : registry'[k] = registry[k]]_vars

\* a second Command with the token PING was refused
C14_Witness ==
    /\ Did("register")
    /\ ret.status = "ValueError"
    /\ ret.arg.cmd = PING
    /\ ret.arg.id = 3
    /\ registry[PING] = 1

\* C15: the registry only grows: a token that has an entry keeps it, with the
\* same Command, over every operation; lookup and get_command leave the
\* registry exactly as it was; lookup returns the Command registered under
\* the token and fails with KeyError exactly when the token has no entry.
C15_RegistryAppendOnly ==
    [][/\ \A tok \in DOMAIN registry :
             tok \in DOMAIN registry' /\ registry'[tok] = registry[tok]
       /\ ret'.op \in {"lookup", "get_command", "contains", "getitem",
                       "proxy.arguments"} => registry' = registry
       /\ ret'.op = "lookup" =>
             IF ret'.arg.cmd \in DOMAIN registry
             THEN /\ ret'.status = "ok"
                  /\ ret'.val.v = CommandRef(registry[ret'.arg.cmd])
             ELSE ret'.status = "KeyError"]_vars

\* a lookup failed for the token the program has not registered (yet)
C15_Witness ==
    /\ Did("lookup")
    /\ ret.status = "KeyError"
    /\ ret.arg.cmd = UserToken
    /\ Len(cmds) = 3
    /\ cmds[3].cmd = UserToken

C17_ArgumentsAreTheAddedNames ==
    /\ [](Did("arguments") => ret.val.v = DOMAIN cmds[ret.arg.id]._arguments)
    /\ [](\A c \in DOMAIN cmds :
             cmds[c]._argset.cached =>
                 cmds[c]._argset.names = DOMAIN cmds[c]._arguments)
    /\ [][ret'.op = "add_argument" =>
             LET c == ret'.arg.id
                 name == ret'.arg.name
             IN IF name \in DOMAIN cmds[c]._arguments
                THEN ret'.status = "ValueError" /\ cmds' = cmds
                ELSE /\ ret'.status = "ok"
                     /\ DOMAIN cmds'[c]._arguments =
                            DOMAIN cmds[c]._arguments \cup {name}]_vars

\* a read after two successful additions, the first of them read as well
C17_Witness ==
    /\ Did("arguments")
    /\ ret.arg.id = 3
    /\ ret.val.v = {"x", "y"}
    /\ cmds[3]._argset = [cached |-> TRUE, names |-> {"x", "y"}]

(***************************************************************************)
(* Properties of Arguments                                                 *)
(***************************************************************************)
\* C18: reading a name the Message's command does not declare fails with
\* AttributeError, also when the decode cache holds an entry under that very
\* name, and leaves the cache as it was.
C18_UndeclaredNameFails ==
    [][(ret'.op = "getattr" /\ message # NoMessage
           /\ ~Contains(message.args._command, ret'.arg)) =>
          /\ ret'.status = "AttributeError"
          /\ message'.args._attr_cache = message.args._attr_cache]_vars

\* the cache holds "y", which PING does not declare, and reading it failed
C18_Witness ==
    /\ Did("getattr")
    /\ ret.arg = "y"
    /\ ret.status = "AttributeError"
    /\ message.command = CommandRef(1)
    /\ "y" \in DOMAIN message.args._attr_cache
    /\ message.args._attr_cache["y"] = Bytes(<<"c">>)

\* the logical length: the stored length less the run of unset values at
\* the end
LogicalLen(value) ==
    IF \A i \in DOMAIN value : value[i] = Unset THEN 0
    ELSE CHOOSE k \in DOMAIN value :
             value[k] # Unset /\ \A j \in (k + 1)..Len(value) : value[j] = Unset

\* the Python positions, all below L, that the slice sl selects from a
\* sequence of length L
SlicePositions(sl, L) ==
    LET step == IF sl.step.given THEN sl.step.n ELSE 1
        rel(b, dflt) == IF ~b.given THEN dflt
                        ELSE IF b.n < 0 THEN b.n + L ELSE b.n
    IN IF step > 0
       THEN LET from == Max(rel(sl.start, 0), 0)
                upto == rel(sl.stop, L)
            IN {q \in 0..(L - 1) : q >= from /\ q < upto /\ (q - from) % step = 0}
       ELSE LET from == Min(rel(sl.start, L - 1), L - 1)
                downto == rel(sl.stop, -1)
            IN {q \in 0..(L - 1) :
                   q <= from /\ q > downto /\ (from - q) % (-step) = 0}

\* the elements of value at the positions ps, ascending or descending
Selected(value, ps, ascending) ==
    [i \in 1..Cardinality(ps) |->
        LET q == CHOOSE q \in ps :
                     Cardinality({o \in ps : IF ascending THEN o <= q ELSE o >= q}) = i
        IN value[q + 1]]

\* C19: with L the stored length less the trailing run of unset values (unset
\* values before a set one count), len is L; the subscript i returns the
\* stored element at i, or at i + L when i is negative, exactly when
\* -L <= i < L, and fails with IndexError otherwise; a slice returns the
\* elements it selects among the positions below L: no positional access
\* returns an element of the trailing unset run.
C19_PositionalAccessIsTrimmed ==
    message # NoMessage =>
        LET value == message.args._value
            L == LogicalLen(value)
        IN /\ message.args._seq_len \in {-1, L}
           /\ Did("len") => ret.val.v = L
           /\ Did("getitem_int") =>
                 LET i == ret.arg.v
                 IN IF -L <= i /\ i < L
                    THEN /\ ret.status = "ok"
                         /\ ret.val = value[(IF i < 0 THEN i + L ELSE i) + 1]
                    ELSE ret.status = "IndexError"
           /\ Did("getitem_slice") =>
                 /\ ret.status = "ok"
                 /\ ret.val.v = Selected(value, SlicePositions(ret.arg, L),
                                         ~ret.arg.step.given \/ ret.arg.step.n > 0)

\* the last position of a list that ends in an unset value is the one before
C19_Witness ==
    /\ Did("getitem_int")
    /\ ret.arg.v = -1
    /\ message.args._value = <<Unset, Bytes(<<"a">>), Unset>>
    /\ ret.status = "ok"
    /\ ret.val = Bytes(<<"a">>)

\* the entries from_dict buckets for the dictionary value and the Command
\* object c, each with its declared or given position and its wire value: the
\* supplied ones and the defaults of the declared names that were not supplied
SuppliedEntries(c, value) ==
    {IF k.isint THEN [pos |-> k.pos, val |-> value[k]]
     ELSE [pos |-> cmds[c]._arguments[k.name].idx,
           val |-> ArgToBytes(cmds[c]._arguments[k.name], value[k])] :
        k \in DOMAIN value}

DefaultedEntries(c, value) ==
    {[pos |-> cmds[c]._arguments[n].idx,
      val |-> ArgToBytes(cmds[c]._arguments[n], cmds[c]._arguments[n].default)] :
        n \in {m \in DOMAIN cmds[c]._arguments :
                  /\ NameKey(m) \notin DOMAIN value
                  /\ cmds[c]._arguments[m].default # Unset}}

Entries(c, value) == SuppliedEntries(c, value) \cup DefaultedEntries(c, value)

HeadPositions(es) == {e.pos : e \in {d \in es : d.pos >= 0}}
TailPositions(es) == {e.pos : e \in {d \in es : d.pos < 0}}
ValuesAt(es, q) == {e.val : e \in {d \in es : d.pos = q}}

\* highest filled head position + 1 + number of tail entries
TotalLength(es) ==
    (IF HeadPositions(es) = {} THEN 0
     ELSE 1 + CHOOSE h \in HeadPositions(es) : \A o \in HeadPositions(es) : o <= h)
        + Cardinality(TailPositions(es))

\* the resolved positions, and the place of one of them in the sequence
\* that lists them in ascending order
ResolvedPositions(es) ==
    LET filled == HeadPositions(es)
                      \cup {TotalLength(es) + t : t \in TailPositions(es)}
    IN filled \cup {g \in 0..(TotalLength(es) - 1) : \E f \in filled : g < f}

Place_of(es, q) == Cardinality({o \in ResolvedPositions(es) : o <= q})

\* C20: from_dict puts every tail entry (negative position t) at the
\* resolved position total_length + t, where total_length is the highest
\* filled head position + 1 + the number of tail entries, counted over all
\* supplied and defaulted entries; this holds in whatever order the entries
\* are processed; a value at position -1 is the last element; and with the
\* head positions 0..h and the tail positions -1..-k filled, one entry each,
\* the sequence is the head values followed by the tail values by ascending
\* position.
C20_TailPlacement ==
    via = "from_dict" =>
        LET es == Entries(newcall.command, newcall.kwargs)
            seq == message.args._value
            total == TotalLength(es)
            hs == HeadPositions(es)
            ts == TailPositions(es)
        IN /\ Len(seq) = Cardinality(ResolvedPositions(es))
           /\ \A t \in ts : seq[Place_of(es, total + t)] \in ValuesAt(es, t)
           /\ \A t \in ts :
                 (\A u \in ts : total + u >= 0) => seq[total + t + 1] \in ValuesAt(es, t)
           /\ -1 \in ts => seq[Len(seq)] \in ValuesAt(es, -1)
           /\ (/\ hs = 0..(Cardinality(hs) - 1)
               /\ ts = (-Cardinality(ts))..(-1)
               /\ Cardinality(es) = Cardinality(hs) + Cardinality(ts)) =>
                 /\ Len(seq) = total
                 /\ \A i \in 1..Len(seq) :
                       ValuesAt(es, IF i <= Cardinality(hs) THEN i - 1
                                    ELSE i - 1 - total) = {seq[i]}

\* x at 0 and y at -1 were supplied and the default of z belongs at -2
C20_Witness ==
    /\ Did("from_dict")
    /\ via = "from_dict"
    /\ newcall.command = 3
    /\ newcall.kwargs = [k \in {NameKey("x"), NameKey("y")} |-> Bytes(<<"a">>)]
    /\ cmds[3]._arguments["z"] = Argument("z", -2, Bytes(<<"b">>))
    /\ message.args._value = <<Bytes(<<"a">>), Bytes(<<"b">>), Bytes(<<"a">>)>>

\* the dictionary value with the default of every declared name that it
\* does not supply, and that has one, supplied under that name
WithDefaults(c, value) ==
    LET defaulted == {n \in DOMAIN cmds[c]._arguments :
                         /\ NameKey(n) \notin DOMAIN value
                         /\ cmds[c]._arguments[n].default # Unset}
    IN [k \in DOMAIN value \cup {NameKey(n) : n \in defaulted} |->
           IF k \in DOMAIN value THEN value[k]
           ELSE cmds[c]._arguments[k.name].default]

\* the sequences from_dict resolves value to, over the orders of iteration
Resolutions(c, value) ==
    {from_dict(c, value, order1, order2).args._value :
        order1 \in Orders(DOMAIN value), order2 \in Orders(Unseen(c, value))}

\* C21: a declared argument that is neither supplied nor has a default
\* contributes nothing to the sequence from_dict resolves, no value and no
\* slot: the sequence holds only values of supplied and defaulted entries and
\* unset gaps, it is as long as the positions those entries resolve to
\* require, and it is empty when there are no such entries; an unsupplied
\* argument with a default is resolved as if the default had been supplied
\* under its name.
C21_UnsuppliedArguments ==
    via = "from_dict" =>
        LET c == newcall.command
            value == newcall.kwargs
            es == Entries(c, value)
            seq == message.args._value
        IN /\ \A i \in DOMAIN seq : seq[i] = Unset \/ \E e \in es : e.val = seq[i]
           /\ Len(seq) = Cardinality(ResolvedPositions(es))
           /\ es = {} => seq = <<>>
           /\ Cardinality({e.pos : e \in es}) = Cardinality(es) =>
                 Cardinality({i \in DOMAIN seq : seq[i] # Unset}) <= Cardinality(es)
           /\ Did("from_dict") => seq \in Resolutions(c, WithDefaults(c, value))

\* x at 0 was supplied; y at -1 and z at -2 have no default
C21_Witness ==
    /\ Did("from_dict")
    /\ via = "from_dict"
    /\ newcall.command = 3
    /\ newcall.kwargs = [k \in {NameKey("x")} |-> Bytes(<<"a">>)]
    /\ cmds[3]._arguments["y"].default = Unset
    /\ cmds[3]._arguments["z"] = Argument("z", -2, Unset)
    /\ message.args._value = <<Bytes(<<"a">>)>>

\* C22: a value supplied to from_dict under an integer key k >= 0 is the
\* element at index k of the resolved sequence, as it was given, for every
\* command and every dictionary; the decode cache holds no entry for an
\* integer key.
C22_IntegerKeyAtItsIndex ==
    via = "from_dict" =>
        LET value == newcall.kwargs
            seq == message.args._value
        IN /\ \A k \in DOMAIN value :
                 (k.isint /\ k.pos >= 0) =>
                     Len(seq) > k.pos /\ seq[k.pos + 1] = value[k]
           /\ Did("from_dict") =>
                 DOMAIN message.args._attr_cache =
                     {k.name : k \in {a \in DOMAIN value : ~a.isint}}

\* C27: from_dict loses no value: when the supplied and defaulted entries
\* have pairwise distinct positions, the position resolved for a tail entry
\* is not a filled head position, every entry's value is in the sequence at
\* the place of its resolved position, and the sequence has a slot for each
\* entry (its length is the number of filled positions plus the gaps).
C27_NoValueLost ==
    via = "from_dict" =>
        LET es == Entries(newcall.command, newcall.kwargs)
            seq == message.args._value
            total == TotalLength(es)
        IN Cardinality({e.pos : e \in es}) = Cardinality(es) =>
              /\ \A t \in TailPositions(es) : total + t \notin HeadPositions(es)
              /\ \A e \in es :
                    seq[Place_of(es, IF e.pos < 0 THEN total + e.pos ELSE e.pos)]
                        = e.val
              /\ Cardinality({i \in DOMAIN seq : seq[i] # Unset}) = Cardinality(es)

\* the names the dictionary value supplies
SuppliedNames(value) == {k.name : k \in {a \in DOMAIN value : ~a.isint}}

\* C23: right after from_dict the decode cache holds exactly the name-keyed
\* entries of the dictionary with the values as they were given (no filled-in
\* default is in it), and reading a supplied name returns that value without
\* a from-wire conversion or a call of the entity resolver.
C23_CacheHoldsSupplied ==
    via = "new" =>
        LET value == newcall.kwargs
        IN /\ Did("new") =>
                 /\ DOMAIN message.args._attr_cache = SuppliedNames(value)
                 /\ \A n \in SuppliedNames(value) :
                       message.args._attr_cache[n] = value[NameKey(n)]
           /\ \A n \in SuppliedNames(value) :
                 /\ n \in DOMAIN message.args._attr_cache
                 /\ message.args._attr_cache[n] = value[NameKey(n)]
           /\ (Did("getattr") /\ ret.arg \in SuppliedNames(value)) =>
                 /\ ret.status = "ok"
                 /\ ret.val = value[NameKey(ret.arg)]
                 /\ calls = <<>>

\* the entity supplied as z is read back: no resolver call was made
C23_Witness ==
    /\ via = "new"
    /\ Did("getattr")
    /\ ret.arg = "z"
    /\ NameKey("z") \in DOMAIN newcall.kwargs
    /\ ret.val = Entity(<<"a">>)
    /\ message.args._value[1] = Bytes(<<"a">>)
    /\ calls = <<>>

\* the descriptor the command of the Message declares under the name n
DeclaredAs(n) == cmds[Resolve(message.args._command)]._arguments[n]

\* the place in the stored sequence that the declared position idx denotes,
\* counted from the end when idx is negative; 0 when there is no such place
StoredPlace(stored, idx) ==
    LET q == IF idx >= 0 THEN idx + 1 ELSE Len(stored) + idx + 1
    IN IF q >= 1 /\ q <= Len(stored) THEN q ELSE 0

\* C24: on a decoded Message, reading a declared name that is not cached
\* returns the from-wire conversion of the token at the declared position
\* (for an entity argument, what the resolver returns for it), or the
\* descriptor's default (unset if none) when the sequence has no such
\* position, without a conversion; the value is cached, and reading a cached
\* name returns the cached value without converting or resolving.
C24_DecodedNamedAccess ==
    [][(/\ ret'.op = "getattr"
        /\ via \in {"decoded", "echo"}
        /\ Contains(message.args._command, ret'.arg)) =>
          LET n == ret'.arg
              desc == DeclaredAs(n)
              stored == message.args._value
              q == StoredPlace(stored, desc.idx)
              cache == message.args._attr_cache
          IN /\ ret'.status = "ok"
             /\ message'.args._value = stored
             /\ IF n \in DOMAIN cache
                THEN /\ ret'.val = cache[n]
                     /\ calls' = <<>>
                     /\ message'.args._attr_cache = cache
                ELSE /\ ret'.val = IF q = 0 THEN desc.default
                                   ELSE IF desc.cls = "EntityArgument"
                                        THEN Entity(stored[q].v)
                                        ELSE stored[q]
                     /\ calls' = IF q # 0 /\ desc.cls = "EntityArgument"
                                 THEN <<Performed("get_entity", stored[q])>>
                                 ELSE <<>>
                     /\ message'.args._attr_cache = Put(cache, n, ret'.val)]_vars

\* the entity argument z of the decoded line "a a" went through the resolver
C24_Witness ==
    /\ via = "decoded"
    /\ Did("getattr")
    /\ ret.arg = "z"
    /\ line = <<"a", SP, "a">>
    /\ ret.val = Entity(<<"a">>)
    /\ calls = <<Performed("get_entity", Bytes(<<"a">>))>>
    /\ message.args._attr_cache = [n \in {"z"} |-> Entity(<<"a">>)]

\* C28: reading a declared name that has no default, and that was neither
\* supplied to from_dict nor has a token at its position on the decoded line,
\* returns unset, also for a tail position when the stored sequence holds
\* only values of other arguments: no name is handed another name's value.
C28_NoForeignValue ==
    (/\ Did("getattr")
     /\ via \in {"new", "decoded", "echo"}
     /\ Contains(message.args._command, ret.arg)
     /\ DeclaredAs(ret.arg).default = Unset
     /\ \/ via = "new" /\ ret.arg \notin SuppliedNames(newcall.kwargs)
        \/ /\ via \in {"decoded", "echo"}
           /\ StoredPlace(message.args._value, DeclaredAs(ret.arg).idx) = 0) =>
        ret.status = "ok" /\ ret.val = Unset

(***************************************************************************)
(* Properties of decoding                                                  *)
(***************************************************************************)
\* the calls of the entity resolver among the calls of the last operation
ResolverCalls == SelectSeq(calls, LAMBDA call : call.f = "get_entity")

ProxyAccessed == Did("contains") \/ Did("getitem") \/ Did("proxy.arguments")

\* the cache of every proxy is empty or the Command registered under its token
CacheIsRegistered ==
    \A tok \in DOMAIN unknown :
        \/ unknown[tok]._command_cache = 0
        \/ /\ tok \in DOMAIN registry
           /\ registry[tok] = unknown[tok]._command_cache

\* an access looks the token up: afterwards the cache is filled iff the token
\* is registered
AccessRetries ==
    ProxyAccessed =>
        LET tok == ret.arg.cmd
        IN /\ tok \in DOMAIN unknown
           /\ unknown[tok]._command_cache =
                  IF tok \in DOMAIN registry THEN registry[tok] ELSE 0

\* C26: whatever the sequence of Command.register, get_command and proxy
\* accesses, the resolution cache of an UnknownCommand proxy is empty or is
\* the Command now registered under the proxy's token; each access of an
\* unresolved proxy looks the registry up again, so that the cache is filled
\* by the first access after the registration; and the cache of a resolved
\* proxy, as long as the proxy exists, stays what it is.
C26_CacheIsEmptyOrRegistered ==
    /\ [](CacheIsRegistered /\ AccessRetries)
    /\ [][\A tok \in DOMAIN unknown :
              (/\ unknown[tok]._command_cache # 0
               /\ tok \in DOMAIN unknown'
               /\ unknown'[tok].obj = unknown[tok].obj) =>
                  unknown'[tok]._command_cache = unknown[tok]._command_cache]_vars

\* the one proxy of the user's token, handed out before the registration, is
\* resolved by an access after it
C26_Witness ==
    /\ ProxyAccessed
    /\ ret.arg.cmd = UserToken
    /\ UserToken \in DOMAIN unknown
    /\ unknown[UserToken]._command_cache = 3
    /\ registry[UserToken] = 3
    /\ allocated = 1

(***************************************************************************)
(* The failures of encoding                                                *)
(***************************************************************************)
\* C29 as stated: for every sequence of byte strings and unset slots, the
\* empty byte string included, in which at most one value needs the sentinel,
\* msg returns a line and caches it.
C29_OnlyMultipleTrailingFails ==
    (/\ Did("msg")
     /\ via \in {"new", "init"}
     /\ TrailingCount(message.args._value) <= 1) =>
        /\ ret.status = "ok"
        /\ ret.val # None
        /\ message._msg = ret.val

====
